---- MODULE Spec2Model ----
(***************************************************************************)
(* State-machine model of the investments list page (InvestmentsPage,      *)
(* src/unnamed/part_000): a server-paginated record list with a local      *)
(* filter layer, a local pagination layer and delete with local removal.   *)
(*                                                                         *)
(* React state cells are the variables.  Every event handler and every     *)
(* continuation after an await is one action.  A request in flight is an   *)
(* element of a bag; the closure of the handler that issued it travels     *)
(* with it (handleDelete keeps the `investments` array of the render that  *)
(* created the clicked button, fetchInvestments keeps that render's        *)
(* `currentPage`).  A useEffect run that has been scheduled by a commit    *)
(* but has not run yet is an element of the queue `effects`.               *)
(***************************************************************************)
EXTENDS Integers, Sequences, FiniteSets, Bags, TLC

VARIABLES
    investments,   \* useState<Investment[]>([]), a sequence of record ids
    loading,       \* useState(true)
    error,         \* useState<string | null>(null)
    typeFilter,    \* useState<string>("")
    searchQuery,   \* useState<string>(""), a sequence of characters
    currentPage,   \* useState(1)
    effects,       \* scheduled runs of the [currentPage] effect, oldest first
    fetches,       \* bag of GET requests in flight, each the 0-based page asked
    deletes,       \* bag of DELETE requests in flight, [id, snap]
    toast,         \* notification emitted by the last step
    applied,       \* history: the response line 45 stored last, and whether
                   \* any response so far held more than itemsPerPage records
    last,          \* history: the handler or continuation that ran last
    reg            \* the registration form (RegisterPage, src/app/register/page.tsx)

vars == <<investments, loading, error, typeFilter, searchQuery, currentPage,
          effects, fetches, deletes, toast, applied, last, reg>>

\* the state of the investments page
pageVars == <<investments, loading, error, typeFilter, searchQuery, currentPage,
              effects, fetches, deletes, toast, applied, last>>

----------------------------------------------------------------------------
(* Bounds of the model *)

NumRecords == 6      \* records held by the remote store
MaxInFlight == 3     \* effect runs scheduled plus requests in flight
MaxViewLen == 2      \* length of the arbitrary record sequences of InitView
MaxViewCount == 11   \* length of the longest record sequence of InitView
MaxViewPage == 4     \* largest page index of InitView

(* Program constants *)

itemsPerPage == 5

NULL == "null"
LoadErrorText == "Erro ao carregar investimentos"

----------------------------------------------------------------------------
(* Records.  A record is named by its id; name and type are looked up.     *)

RecordIds == 1..NumRecords

Names == << <<"A", "p">>, <<"a", "b">>, <<"B", "a">>,
            <<"p">>, <<"A">>, <<"b", "A", "P">> >>

\* "Acoes", "Imoveis" stand for the accented texts of the SelectItems
Types == << "Acoes", "Imoveis", "Acoes", "Criptomoedas", "Outros", "Acoes" >>

RecName(id) == Names[((id - 1) % Len(Names)) + 1]

RecType(id) == Types[((id - 1) % Len(Types)) + 1]

(* The values the Select offers and the texts typed into the search box.   *)
SelectItems == {"", "Acoes", "Imoveis", "Criptomoedas"}

TypeInputs == SelectItems

SearchInputs == { <<>>, <<"A", "P">> }

(* The rows whose trash button the user clicks.                            *)
DeleteInputs == {1, NumRecords}

----------------------------------------------------------------------------
(* JavaScript library functions, as far as the page uses them.             *)

Min(a, b) == IF a < b THEN a ELSE b

Max(a, b) == IF a > b THEN a ELSE b

\* Math.ceil(a / b) for integers a >= 0, b > 0
\* variant: Math.floor in place of Math.ceil
MathCeilFloor(a, b) == a \div b
\* variant: Math.floor(a / b) + 1
MathCeilPlusOne(a, b) == (a \div b) + 1
MathCeil(a, b) == IF a % b = 0 THEN a \div b ELSE (a \div b) + 1

\* String.prototype.toLowerCase, one character
LowerChar(c) ==
    CASE c = "A" -> "a"
      [] c = "B" -> "b"
      [] c = "P" -> "p"
      [] OTHER   -> c

\* variant: no case conversion
ToLowerCaseId(s) == s
ToLowerCase(s) == [i \in 1..Len(s) |-> LowerChar(s[i])]

\* String.prototype.includes: scan the start positions from the left
RECURSIVE IncludesFrom(_, _, _)
IncludesFrom(s, t, i) ==
    IF i + Len(t) - 1 > Len(s) THEN FALSE
    ELSE IF SubSeq(s, i, i + Len(t) - 1) = t THEN TRUE
    ELSE IncludesFrom(s, t, i + 1)

Includes(s, t) == IncludesFrom(s, t, 1)

\* Array.prototype.slice(start, end) for start, end >= 0
\* variant: slice(0, end)
SliceUnclamped(s, start, end) == SubSeq(s, 1, Min(end, Len(s)))
Slice(s, start, end) == SubSeq(s, Min(start, Len(s)) + 1, Min(end, Len(s)))

----------------------------------------------------------------------------
(* The remote collection.  The page asks for `size` records of page `page`; *)
(* the store answers with that slice, or with the slice its own, larger    *)
(* page size gives, or with the whole collection whatever page is asked    *)
(* (page and size are requests, the client checks neither).                *)

RemoteStore == [i \in 1..NumRecords |-> i]

ServerPage(page, size) ==
    SubSeq(RemoteStore, Min(page * size, NumRecords) + 1,
                        Min((page + 1) * size, NumRecords))

ServerSizes == {itemsPerPage, NumRecords}

Responses(page) == {ServerPage(page, size) : size \in ServerSizes} \cup {RemoteStore}

FailureKinds == {"status", "network", "body"}

----------------------------------------------------------------------------
(* What a render derives from the state (lines 76-93, 156, 186-207).       *)

\* the callback of investments.filter at lines 77-81
Matches(id, tf, sq) ==
    LET matchesType   == IF tf # "" THEN RecType(id) = tf ELSE TRUE
        matchesSearch == IF sq # <<>> THEN Includes(ToLowerCase(RecName(id)), ToLowerCase(sq))
                         ELSE TRUE
    IN  matchesType /\ matchesSearch

Filter(R, tf, sq) ==
    LET Test(id) == Matches(id, tf, sq) IN SelectSeq(R, Test)

filteredInvestments == Filter(investments, typeFilter, searchQuery)

totalPages == MathCeil(Len(filteredInvestments), itemsPerPage)

paginatedInvestments ==
    Slice(filteredInvestments, (currentPage - 1) * itemsPerPage,
                               currentPage * itemsPerPage)

\* the three returns of the component, lines 87-95
View == IF loading THEN "loading"
        ELSE IF error # NULL THEN "error"
        ELSE "table"

\* line 186: the block with the two page buttons
ControlsShown == View = "table" /\ totalPages > 1

\* array.filter(investment => investment.id !== id), line 69
Without(R, id) ==
    LET Keep(x) == x # id IN SelectSeq(R, Keep)

\* a commit whose currentPage differs from the previous one schedules the effect
\* variant: an effect without the [currentPage] dependency check
ScheduleAlways(q, old, new) == Append(q, new)
Schedule(q, old, new) == IF new # old THEN Append(q, new) ELSE q

\* the asynchronous work outstanding: scheduled effect runs, GETs and DELETEs
InFlight == Len(effects) + BagCardinality(fetches) + BagCardinality(deletes)

CanSchedule(old, new) == new = old \/ InFlight < MaxInFlight

----------------------------------------------------------------------------
(* The registration form (RegisterPage).  reg holds the two field values,  *)
(* the fields that show a validation message, isLoading, the POST in       *)
(* flight (a sequence of at most one payload), what the last step wrote to *)
(* the console, and the handler or continuation that ran last.             *)

\* texts typed into the two inputs
RegTexts == {"", "u", "v", "pw"}

RegFields == {"username", "password"}

\* useState(false) and the defaultValues of useForm, lines 22-29
RegInit ==
    [username |-> "", password |-> "", messages |-> {}, isSubmitted |-> FALSE,
     isLoading |-> FALSE, request |-> <<>>, console |-> "none", last |-> "mount"]

\* formSchema, lines 11-18: z.string().min(1) on both fields
Invalid(username, password) ==
    (IF username = "" THEN {"username"} ELSE {})
        \cup (IF password = "" THEN {"password"} ELSE {})

\* what the form renders: inputs, FormMessages, the submit button (63-93)
FormShown(r) ==
    [username |-> r.username, password |-> r.password, messages |-> r.messages,
     isLoading |-> r.isLoading]

----------------------------------------------------------------------------
TypeOK ==
    /\ investments \in Seq(RecordIds)
    /\ loading \in BOOLEAN
    /\ error \in {NULL, LoadErrorText}
    /\ typeFilter \in TypeInputs
    /\ searchQuery \in Seq(STRING)
    /\ currentPage \in Nat \ {0}
    /\ InFlight <= MaxInFlight
    /\ toast \in {"none", "loadError", "deleteSuccess", "deleteError"}

Init ==
    /\ investments = <<>>
    /\ loading = TRUE
    /\ error = NULL
    /\ typeFilter = ""
    /\ searchQuery = <<>>
    /\ currentPage = 1
    /\ effects = <<1>>
    /\ fetches = EmptyBag
    /\ deletes = EmptyBag
    /\ toast = "none"
    /\ applied = [ok |-> FALSE, page |-> 0, content |-> <<>>, big |-> FALSE]
    /\ last = [op |-> "mount", arg |-> 0]
    /\ reg = RegInit

----------------------------------------------------------------------------
(* variant: setError(null) before the request *)
RunEffectClearsError ==
    /\ effects # <<>>
    /\ loading' = TRUE
    /\ error' = NULL
    /\ fetches' = fetches (+) SetToBag({Head(effects) - 1})
    /\ effects' = Tail(effects)
    /\ toast' = "none"
    /\ last' = [op |-> "effect", arg |-> Head(effects) - 1]
    /\ UNCHANGED <<reg, investments, typeFilter, searchQuery, currentPage,
                   deletes, applied>>
(* useEffect(() => { fetchInvestments() }, [currentPage]), lines 33-40:    *)
(* the scheduled run sets loading and issues the GET of its render's page. *)
(* React runs a scheduled effect after the commit that scheduled it; an    *)
(* event handled before it runs still sees the committed render.           *)
RunEffect ==
    /\ effects # <<>>
    /\ loading' = TRUE
    /\ fetches' = fetches (+) SetToBag({Head(effects) - 1})
    /\ effects' = Tail(effects)
    /\ toast' = "none"
    /\ last' = [op |-> "effect", arg |-> Head(effects) - 1]
    /\ UNCHANGED <<reg, investments, error, typeFilter, searchQuery, currentPage,
                   deletes, applied>>

\* setInvestments(data.content), line 45
\* variant: a response for another page than the current one is dropped
StoreIfCurrent(page, content) ==
    IF page = currentPage - 1 THEN content ELSE investments
StoreContent(page, content) == content

(* fetchInvestments after the awaits, response ok and body parsed: 44-46, 51 *)
FetchOk(page, content) ==
    /\ BagIn(page, fetches)
    /\ content \in Responses(page)
    /\ fetches' = fetches (-) SetToBag({page})
    /\ investments' = StoreContent(page, content)
    /\ error' = NULL
    /\ loading' = FALSE
    /\ toast' = "none"
    /\ applied' = [ok |-> TRUE, page |-> page, content |-> content,
                   big |-> applied.big \/ Len(content) > itemsPerPage]
    /\ last' = [op |-> "fetchOk", arg |-> page]
    /\ UNCHANGED <<reg, typeFilter, searchQuery, currentPage, effects, deletes>>

(* fetchInvestments, catch and finally: fetch rejected, !response.ok, or   *)
(* response.json() rejected: lines 41-43, 47-52                            *)
(* variant: without the finally block *)
FetchFailKeepLoading(page, kind) ==
    /\ BagIn(page, fetches)
    /\ fetches' = fetches (-) SetToBag({page})
    /\ error' = LoadErrorText
    /\ toast' = "loadError"
    /\ last' = [op |-> "fetchFail", arg |-> page]
    /\ UNCHANGED <<reg, investments, loading, typeFilter, searchQuery, currentPage,
                   effects, deletes, applied>>
FetchFail(page, kind) ==
    /\ BagIn(page, fetches)
    /\ kind \in FailureKinds
    /\ fetches' = fetches (-) SetToBag({page})
    /\ error' = LoadErrorText
    /\ loading' = FALSE
    /\ toast' = "loadError"
    /\ last' = [op |-> "fetchFail", arg |-> page]
    /\ UNCHANGED <<reg, investments, typeFilter, searchQuery, currentPage,
                   effects, deletes, applied>>

(* onClick of the trash button of a rendered row, lines 168, 59-63: the    *)
(* DELETE is issued; the handler keeps the investments of its render.      *)
ClickDelete(id) ==
    /\ View = "table"
    /\ id \in DeleteInputs
    /\ \E i \in 1..Len(paginatedInvestments) : paginatedInvestments[i] = id
    /\ InFlight < MaxInFlight
    /\ deletes' = deletes (+) SetToBag({[id |-> id, snap |-> investments]})
    /\ toast' = "none"
    /\ last' = [op |-> "clickDelete", arg |-> id]
    /\ UNCHANGED <<reg, investments, loading, error, typeFilter, searchQuery,
                   currentPage, effects, fetches, applied>>

(* handleDelete after the await, response ok: lines 69-70 *)
(* variant: the page index is clamped to the new totalPages *)
DeleteOkClamp(req) ==
    /\ BagIn(req, deletes)
    /\ deletes' = deletes (-) SetToBag({req})
    /\ investments' = Without(req.snap, req.id)
    /\ currentPage' = Max(1, Min(currentPage,
                           MathCeil(Len(Filter(investments', typeFilter, searchQuery)),
                                    itemsPerPage)))
    /\ toast' = "deleteSuccess"
    /\ last' = [op |-> "deleteOk", arg |-> req.id]
    /\ UNCHANGED <<reg, loading, error, typeFilter, searchQuery,
                   effects, fetches, applied>>
DeleteOk(req) ==
    /\ BagIn(req, deletes)
    /\ deletes' = deletes (-) SetToBag({req})
    /\ investments' = Without(req.snap, req.id)
    /\ toast' = "deleteSuccess"
    /\ last' = [op |-> "deleteOk", arg |-> req.id]
    /\ UNCHANGED <<reg, loading, error, typeFilter, searchQuery, currentPage,
                   effects, fetches, applied>>

(* handleDelete, catch: fetch rejected or !response.ok, lines 65-67, 71-73 *)
(* variant: optimistic removal that is not rolled back *)
DeleteFailRemoves(req) ==
    /\ BagIn(req, deletes)
    /\ deletes' = deletes (-) SetToBag({req})
    /\ investments' = Without(investments, req.id)
    /\ toast' = "deleteError"
    /\ last' = [op |-> "deleteFail", arg |-> req.id]
    /\ UNCHANGED <<reg, loading, error, typeFilter, searchQuery, currentPage,
                   effects, fetches, applied>>
DeleteFail(req) ==
    /\ BagIn(req, deletes)
    /\ deletes' = deletes (-) SetToBag({req})
    /\ toast' = "deleteError"
    /\ last' = [op |-> "deleteFail", arg |-> req.id]
    /\ UNCHANGED <<reg, investments, loading, error, typeFilter, searchQuery,
                   currentPage, effects, fetches, applied>>

(* variant: the search handler without setCurrentPage(1) *)
SearchChangeKeepsPage(q) ==
    /\ View = "table"
    /\ q \in SearchInputs \ {searchQuery}
    /\ searchQuery' = q
    /\ toast' = "none"
    /\ last' = [op |-> "search", arg |-> 0]
    /\ UNCHANGED <<reg, investments, currentPage, effects, loading, error, typeFilter, fetches, deletes,
                   applied>>
(* onChange of the search Input, lines 118-121 *)
SearchChange(q) ==
    /\ View = "table"
    /\ q \in SearchInputs \ {searchQuery}
    /\ CanSchedule(currentPage, 1)
    /\ searchQuery' = q
    /\ currentPage' = 1
    /\ effects' = Schedule(effects, currentPage, 1)
    /\ toast' = "none"
    /\ last' = [op |-> "search", arg |-> 0]
    /\ UNCHANGED <<reg, investments, loading, error, typeFilter, fetches, deletes,
                   applied>>

(* variant: the select handler without setCurrentPage(1) *)
TypeChangeKeepsPage(t) ==
    /\ View = "table"
    /\ t \in TypeInputs \ {typeFilter}
    /\ typeFilter' = t
    /\ toast' = "none"
    /\ last' = [op |-> "type", arg |-> 0]
    /\ UNCHANGED <<reg, investments, currentPage, effects, loading, error, searchQuery, fetches, deletes,
                   applied>>
(* onValueChange of the type Select, lines 127-130 *)
TypeChange(t) ==
    /\ View = "table"
    /\ t \in TypeInputs \ {typeFilter}
    /\ CanSchedule(currentPage, 1)
    /\ typeFilter' = t
    /\ currentPage' = 1
    /\ effects' = Schedule(effects, currentPage, 1)
    /\ toast' = "none"
    /\ last' = [op |-> "type", arg |-> 0]
    /\ UNCHANGED <<reg, investments, loading, error, searchQuery, fetches, deletes,
                   applied>>

(* onClick of "Anterior", lines 188-192 *)
PrevPage ==
    /\ ControlsShown
    /\ currentPage # 1
    /\ CanSchedule(currentPage, Max(currentPage - 1, 1))
    /\ currentPage' = Max(currentPage - 1, 1)
    /\ effects' = Schedule(effects, currentPage, currentPage')
    /\ toast' = "none"
    /\ last' = [op |-> "prev", arg |-> 0]
    /\ UNCHANGED <<reg, investments, loading, error, typeFilter, searchQuery,
                   fetches, deletes, applied>>

(* onClick of "Proxima", lines 199-203 *)
NextPage ==
    /\ ControlsShown
    /\ currentPage # totalPages
    /\ CanSchedule(currentPage, Min(currentPage + 1, totalPages))
    /\ currentPage' = Min(currentPage + 1, totalPages)
    /\ effects' = Schedule(effects, currentPage, currentPage')
    /\ toast' = "none"
    /\ last' = [op |-> "next", arg |-> 0]
    /\ UNCHANGED <<reg, investments, loading, error, typeFilter, searchQuery,
                   fetches, deletes, applied>>

Next ==
    \/ RunEffect
    \/ \E page \in BagToSet(fetches) : \E content \in Responses(page) : FetchOk(page, content)
    \/ \E page \in BagToSet(fetches) : \E kind \in FailureKinds : FetchFail(page, kind)
    \/ \E id \in DeleteInputs : ClickDelete(id)
    \/ \E req \in BagToSet(deletes) : DeleteOk(req)
    \/ \E req \in BagToSet(deletes) : DeleteFail(req)
    \/ \E q \in SearchInputs : SearchChange(q)
    \/ \E t \in TypeInputs : TypeChange(t)
    \/ PrevPage
    \/ NextPage

Spec == Init /\ [][Next]_vars

(* A request in flight is answered and a scheduled effect run is executed: *)
(* weak fairness on the resolution of fetches and on the effect.           *)
Resolve ==
    \/ \E page \in BagToSet(fetches) : \E content \in Responses(page) : FetchOk(page, content)
    \/ \E page \in BagToSet(fetches) : \E kind \in FailureKinds : FetchFail(page, kind)

SpecLive == Init /\ [][Next]_vars /\ WF_vars(RunEffect) /\ WF_vars(Resolve)

----------------------------------------------------------------------------
(* The derived view over arbitrary loaded records: the state right after a *)
(* successful load of any record sequence, under any filter and page       *)
(* index, followed by the handlers that only re-derive the view.           *)

ViewSearches == { <<>>, <<"a">>, <<"A", "P">>, <<"b", "a">>, <<"P", "b">>, <<"x">> }

\* record i of a sequence that cycles through the record ids
Cycle(n) == [i \in 1..n |-> ((i - 1) % NumRecords) + 1]

ViewRecords ==
    UNION {[1..n -> RecordIds] : n \in 0..MaxViewLen}
        \cup {Cycle(n) : n \in 0..MaxViewCount}

InitView ==
    /\ investments \in ViewRecords
    /\ loading = FALSE
    /\ error = NULL
    /\ typeFilter \in SelectItems
    /\ searchQuery \in ViewSearches
    /\ currentPage \in 1..MaxViewPage
    /\ effects = <<>>
    /\ fetches = EmptyBag
    /\ deletes = EmptyBag
    /\ toast = "none"
    /\ applied = [ok |-> TRUE, page |-> currentPage - 1, content |-> investments,
                  big |-> Len(investments) > itemsPerPage \/ currentPage > 1]
    /\ last = [op |-> "fetchOk", arg |-> currentPage - 1]
    /\ reg = RegInit

NextView ==
    \/ \E q \in SearchInputs : SearchChange(q)
    \/ \E t \in TypeInputs : TypeChange(t)
    \/ PrevPage
    \/ NextPage
    \/ RunEffect

SpecView == InitView /\ [][NextView]_vars

----------------------------------------------------------------------------
(* The registration form's handlers.                                       *)

(* typing into an Input bound by {...field}, lines 64-89; once the form    *)
(* was submitted, useForm re-validates the changed field with formSchema   *)
RegType(f, v) ==
    /\ f \in RegFields
    /\ v \in RegTexts \ {reg[f]}
    /\ reg' = [reg EXCEPT
                 ![f] = v,
                 !.messages = IF reg.isSubmitted
                              THEN (@ \ {f}) \cup (IF v = "" THEN {f} ELSE {})
                              ELSE @,
                 !.console = "none",
                 !.last = "type"]
    /\ UNCHANGED pageVars

(* the submit button, enabled unless isLoading (line 90);                  *)
(* form.handleSubmit(onSubmit), line 63, calls onSubmit only when the      *)
(* values pass formSchema; onSubmit up to the await: lines 31-40           *)
RegSubmit ==
    /\ ~reg.isLoading
    /\ reg' = IF Invalid(reg.username, reg.password) # {}
              THEN [reg EXCEPT !.messages = Invalid(reg.username, reg.password),
                               !.isSubmitted = TRUE,
                               !.console = "none",
                               !.last = "rejected"]
              ELSE [reg EXCEPT !.messages = {},
                               !.isSubmitted = TRUE,
                               !.isLoading = TRUE,
                               !.request = <<[username |-> reg.username,
                                              password |-> reg.password]>>,
                               !.console = "none",
                               !.last = "submit"]
    /\ UNCHANGED pageVars

(* onSubmit after the awaits, response ok and body parsed: lines 44-45, 49 *)
RegisterOk ==
    /\ reg.request # <<>>
    /\ reg' = [reg EXCEPT !.request = <<>>,
                          !.isLoading = FALSE,
                          !.console = "log",
                          !.last = "registerOk"]
    /\ UNCHANGED pageVars

(* onSubmit, catch and finally: fetch rejected, !response.ok or            *)
(* response.json() rejected: lines 41-43, 46-50                            *)
RegisterFail(kind) ==
    /\ kind \in FailureKinds
    /\ reg.request # <<>>
    /\ reg' = [reg EXCEPT !.request = <<>>,
                          !.isLoading = FALSE,
                          !.console = "error",
                          !.last = "registerFail"]
    /\ UNCHANGED pageVars

NextRegister ==
    \/ \E f \in RegFields : \E v \in RegTexts : RegType(f, v)
    \/ RegSubmit
    \/ RegisterOk
    \/ \E kind \in FailureKinds : RegisterFail(kind)

SpecRegister == Init /\ [][NextRegister]_vars

----------------------------------------------------------------------------
(* Operators used to state the properties *)

Range(s) == {s[i] : i \in DOMAIN s}

\* s can be obtained from t by dropping elements
RECURSIVE IsSubSeq(_, _)
IsSubSeq(s, t) ==
    IF s = <<>> THEN TRUE
    ELSE IF t = <<>> THEN FALSE
    ELSE IF Head(s) = Head(t) THEN IsSubSeq(Tail(s), Tail(t))
    ELSE IsSubSeq(s, Tail(t))

FilterOps == {"search", "type"}

----------------------------------------------------------------------------
(* C1: when a delete of d resolves successfully, the record sequence       *)
(* afterwards is the sequence held just before the resolution with d       *)
(* removed, whatever resolved since the delete was issued.                 *)
C1_DeleteRemovesFromCurrent ==
    [][last'.op = "deleteOk" => investments' = Without(investments, last'.arg)]_vars

(* C2: no response is discarded: every successful response, whatever page  *)
(* it answers and whatever the page index is by then, becomes the record   *)
(* sequence when it resolves, so the last to resolve is what remains.      *)
C2_EveryResponseOverwrites ==
    [][last'.op = "fetchOk" =>
          /\ BagIn(last'.arg, fetches)
          /\ applied'.page = last'.arg
          /\ applied'.content \in Responses(last'.arg)
          /\ investments' = applied'.content]_vars

\* two fetches overlapped, the one issued last resolved first, and the
\* records on screen are those of the other one
C2_Witness ==
    /\ last.op = "fetchOk"
    /\ fetches = EmptyBag /\ effects = <<>>
    /\ last.arg # currentPage - 1
    /\ investments = applied.content
    /\ investments # <<>>

(* C3: the record sequence is empty or an order-preserving subsequence of  *)
(* the response of the most recently applied successful fetch.             *)
C3_SubsequenceOfLastResponse ==
    investments = <<>> \/ IsSubSeq(investments, applied.content)

(* C4: a failed fetch leaves error non-null and loading false, keeps the   *)
(* record sequence, and the view renders the error instead of the table.   *)
C4_FetchFailure ==
    [][last'.op = "fetchFail" =>
          /\ error' # NULL
          /\ loading' = FALSE
          /\ investments' = investments
          /\ View' = "error"]_vars

C4_Witness ==
    /\ last.op = "fetchFail"
    /\ investments # <<>>
    /\ error # NULL /\ ~loading /\ View = "error"

(* C5: a failed delete changes nothing of the record sequence, page index, *)
(* filter state, loading flag and error; it emits exactly the failure      *)
(* notification and no success notification.                               *)
C5_DeleteFailure ==
    [][last'.op = "deleteFail" =>
          /\ UNCHANGED <<investments, currentPage, typeFilter, searchQuery,
                         loading, error>>
          /\ toast' = "deleteError"]_vars

C5_Witness ==
    /\ last.op = "deleteFail"
    /\ toast = "deleteError"
    /\ last.arg \in Range(investments)

(* C6: a successful delete of d issues no fetch, leaves page index, filter *)
(* state, loading and error alone, and d is absent afterwards; the page    *)
(* index is not corrected when totalPages drops below it, and the visible  *)
(* slice is then empty.                                                    *)
C6_DeleteSuccessFrame ==
    [][last'.op = "deleteOk" =>
          /\ fetches' = fetches /\ effects' = effects
          /\ UNCHANGED <<currentPage, typeFilter, searchQuery, loading, error>>
          /\ last'.arg \notin Range(investments')
          /\ (totalPages' < currentPage' => paginatedInvestments' = <<>>)]_vars

C6_Witness ==
    /\ last.op = "deleteOk"
    /\ currentPage > 1
    /\ totalPages < currentPage
    /\ totalPages > 0
    /\ paginatedInvestments = <<>>

(* C7, as claimed: handling a filter-input change never results in a fetch *)
(* request, whatever the page index is: no effect run is scheduled, no     *)
(* request is issued, the records in memory are only re-derived.           *)
C7_FilterNeverFetches ==
    [][last'.op \in FilterOps =>
          /\ effects' = effects
          /\ fetches' = fetches
          /\ investments' = investments]_vars

(* C7, amended: the handler issues no request itself and keeps the         *)
(* records; with the page index at 1 nothing is scheduled, with the page   *)
(* index above 1 the reset to 1 schedules one run of the page effect,      *)
(* which fetches remote page 0.                                            *)
C7_FilterFetchesOnlyOffPageOne ==
    [][last'.op \in FilterOps =>
          /\ fetches' = fetches
          /\ investments' = investments
          /\ effects' = IF currentPage = 1 THEN effects ELSE Append(effects, 1)]_vars

C7_Witness ==
    /\ last.op \in FilterOps
    /\ currentPage = 1
    /\ effects = <<>> /\ fetches = EmptyBag
    /\ filteredInvestments # investments

(* C8: the filtered set is exactly the order-preserving subsequence of the *)
(* records R whose type equals the category (or the category is empty) and *)
(* whose case-folded name contains the case-folded search text (or the     *)
(* search text is empty); with both empty it is R.                         *)
CasePairs == { <<"A", "a">>, <<"B", "b">>, <<"P", "p">> }

FoldChar(c) ==
    IF \E pr \in CasePairs : pr[1] = c
    THEN (CHOOSE pr \in CasePairs : pr[1] = c)[2]
    ELSE c

CaseFold(s) == [i \in 1..Len(s) |-> FoldChar(s[i])]

Contains(s, t) ==
    \E i \in 0..(Len(s) - Len(t)) : \A k \in 1..Len(t) : s[i + k] = t[k]

Passes(id) ==
    /\ (typeFilter = "" \/ RecType(id) = typeFilter)
    /\ (searchQuery = <<>> \/ Contains(CaseFold(RecName(id)), CaseFold(searchQuery)))

C8_FilteredSet ==
    /\ IsSubSeq(filteredInvestments, investments)
    /\ \A i \in DOMAIN filteredInvestments : Passes(filteredInvestments[i])
    /\ Len(filteredInvestments) = Cardinality({i \in DOMAIN investments : Passes(investments[i])})
    /\ (typeFilter = "" /\ searchQuery = <<>> => filteredInvestments = investments)

\* both predicates active, some records pass and some do not, and one passes
\* only because of case folding
C8_Witness ==
    /\ last.op \in FilterOps
    /\ typeFilter # "" /\ searchQuery # <<>>
    /\ filteredInvestments # <<>>
    /\ Len(filteredInvestments) < Len(investments)
    /\ \E i \in DOMAIN filteredInvestments :
          ~Contains(RecName(filteredInvestments[i]), searchQuery)

(* C9: totalPages = ceil(C / P) for the filtered count C and the page size *)
(* P, totalPages = 0 exactly when C = 0, and the pagination controls are   *)
(* not shown when totalPages = 0.                                          *)
C9_TotalPages ==
    LET C == Len(filteredInvestments)
        P == itemsPerPage
    IN  /\ P > 0
        /\ totalPages * P >= C
        /\ (totalPages - 1) * P < C
        /\ (totalPages = 0 <=> C = 0)
        /\ (totalPages = 0 => ~ControlsShown)

C9_Witness ==
    /\ last.op \in FilterOps
    /\ Len(filteredInvestments) > itemsPerPage
    /\ Len(filteredInvestments) % itemsPerPage # 0
    /\ totalPages >= 2
    /\ ControlsShown

(* C10: the visible slice is the part of the filtered set from position    *)
(* (currentPage-1)*pageSize up to, not including, currentPage*pageSize: at *)
(* most pageSize records, all of the loaded sequence, in filtered order,   *)
(* and empty whenever currentPage > totalPages.                            *)
C10_VisibleSlice ==
    LET F  == filteredInvestments
        S  == paginatedInvestments
        lo == (currentPage - 1) * itemsPerPage
        hi == currentPage * itemsPerPage
    IN  /\ Len(S) <= itemsPerPage
        /\ Len(S) = Max(0, Min(hi, Len(F)) - lo)
        /\ \A k \in 1..Len(S) : S[k] = F[lo + k]
        /\ Range(S) \subseteq Range(investments)
        /\ (currentPage > totalPages => S = <<>>)

\* a second page that shows the records after the first pageSize ones
C10_Witness ==
    /\ currentPage = 2
    /\ View = "table"
    /\ Len(filteredInvestments) > itemsPerPage
    /\ paginatedInvestments # <<>>
    /\ paginatedInvestments[1] = filteredInvestments[itemsPerPage + 1]
NavOps == {"next", "prev"}

(* C11: after a next-page or previous-page action the stored page index p  *)
(* satisfies 1 <= p <= totalPages, totalPages being the value derived from *)
(* the filtered set at the time of the action, also when the action starts *)
(* from a page index above totalPages.                                     *)
C11_NavigationClamped ==
    [][last'.op \in NavOps =>
          /\ 1 <= currentPage'
          /\ currentPage' <= totalPages]_vars
\* the handlers through which the user sets the page index
UserNavigation ==
    \/ PrevPage
    \/ NextPage
    \/ \E q \in SearchInputs : SearchChange(q)
    \/ \E t \in TypeInputs : TypeChange(t)

(* C12: the error state is not a dead end: when a load has failed, error   *)
(* is non-null and no fetch is in flight or scheduled, a user-initiated    *)
(* page navigation is enabled, which re-triggers a load.                   *)
C12_ErrorRecoverable ==
    (error # NULL /\ fetches = EmptyBag /\ effects = <<>>) => ENABLED UserNavigation
(* C13, as claimed: starting a load sets loading = true and clears the     *)
(* error before the request is issued, so a fetch started from an error    *)
(* state is pending with error null.                                       *)
C13_LoadStartClearsError ==
    [][last'.op = "effect" => loading' = TRUE /\ error' = NULL]_vars

(* C13, amended: starting a load sets loading = true, issues the request   *)
(* and leaves error as it was; error goes from non-null to null only when  *)
(* a fetch resolves successfully.                                          *)
C13_LoadStartKeepsError ==
    [][/\ (last'.op = "effect" =>
              /\ loading' = TRUE
              /\ error' = error
              /\ fetches' = fetches (+) SetToBag({last'.arg}))
       /\ (error # NULL /\ error' = NULL => last'.op = "fetchOk")]_vars

\* a load started from an error state: its fetch is pending, error is still set
C13_Witness ==
    /\ last.op = "effect"
    /\ BagIn(last.arg, fetches)
    /\ loading
    /\ error # NULL
(* C14: every filter-input change (search text or category), from every    *)
(* prior page index, sets the stored current page index to 1.              *)
C14_FilterResetsPage ==
    [][last'.op \in FilterOps => currentPage' = 1]_vars

\* a filter change made on a page above 1: the index is 1 and the reset
\* scheduled the effect run for page 1
C14_Witness ==
    /\ last.op \in FilterOps
    /\ currentPage = 1
    /\ effects # <<>>
    /\ effects[Len(effects)] = 1

(* C15, as claimed: a filter change that makes totalPages smaller than the *)
(* stored page index does not correct the index: right after it the index  *)
(* is the old one, the visible slice is empty and the index is above       *)
(* totalPages.                                                             *)
C15_FilterKeepsStaleIndex ==
    [][last'.op \in FilterOps /\ totalPages' < currentPage =>
          /\ currentPage' = currentPage
          /\ paginatedInvestments' = <<>>
          /\ currentPage' > totalPages']_vars

(* C15, amended: a filter change that makes totalPages smaller than the    *)
(* stored page index sets the index to 1 like every filter change; right   *)
(* after it the index is within totalPages and the slice is the first page *)
(* of the filtered set, unless no record passes the filter (totalPages =   *)
(* 0), where the index 1 is above totalPages and the slice is empty.       *)
C15_FilterShrinkResetsIndex ==
    [][last'.op \in FilterOps /\ totalPages' < currentPage =>
          /\ currentPage' = 1
          /\ (totalPages' >= 1 =>
                /\ currentPage' <= totalPages'
                /\ paginatedInvestments' # <<>>
                /\ paginatedInvestments'[1] = filteredInvestments'[1])
          /\ (totalPages' = 0 => paginatedInvestments' = <<>>)]_vars

\* a filter change on page 2 that left one page: the index went back to 1
C15_Witness ==
    /\ last.op \in FilterOps
    /\ effects # <<>> /\ effects[Len(effects)] = 1
    /\ currentPage = 1
    /\ totalPages = 1
    /\ Len(investments) > itemsPerPage
    /\ paginatedInvestments = filteredInvestments
(* C16: when the registration request gets a non-2xx response the failure  *)
(* is surfaced to the form as a user-visible error state (the form then    *)
(* shows something else than it shows after a successful registration,     *)
(* where only the button goes back to idle), and no registration request   *)
(* is issued except by a user submit.                                      *)
C16_RegisterFailureSurfaced ==
    [][/\ (reg'.last = "registerFail" /\ reg' # reg =>
              FormShown(reg') # [FormShown(reg) EXCEPT !.isLoading = FALSE])
       /\ (reg'.request # <<>> /\ reg'.request # reg.request =>
              reg'.last = "submit")]_vars
ResolveOps == {"fetchOk", "fetchFail"}

(* C17: every load that is started ends with loading = false, whether its  *)
(* fetch succeeds or fails, provided the request resolves; with no fetch   *)
(* in flight and no effect run scheduled, loading is never true.           *)
C17_LoadingEnds ==
    /\ [](fetches = EmptyBag /\ effects = <<>> => ~loading)
    /\ [][last'.op \in ResolveOps => loading' = FALSE]_vars
    /\ (loading ~> ~loading)

\* a load started by a navigation has resolved and nothing is pending
C17_Witness ==
    /\ last.op \in ResolveOps
    /\ currentPage = 2
    /\ fetches = EmptyBag /\ effects = <<>>
    /\ ~loading
(* C18: loading = true whenever at least one fetch is still in flight: the *)
(* resolution of one fetch does not clear the flag while an overlapping    *)
(* fetch has not resolved.                                                 *)
C18_LoadingWhileFetching ==
    fetches # EmptyBag => loading
(* C19: as long as every fetch response held at most pageSize records,     *)
(* totalPages <= 1, the page buttons are not shown, the stored page index  *)
(* is 1, and the only remote page requested or about to be requested is    *)
(* index 0.                                                                *)
C19_FirstPageOnly ==
    ~applied.big =>
        /\ totalPages <= 1
        /\ ~ControlsShown
        /\ currentPage = 1
        /\ BagToSet(fetches) \subseteq {0}
        /\ \A i \in DOMAIN effects : effects[i] = 1
        /\ (last.op \in {"effect", "fetchOk", "fetchFail"} => last.arg = 0)

\* a full page of pageSize records is on screen, reloaded after a filter
\* change or not, and there is one page
C19_Witness ==
    /\ ~applied.big
    /\ applied.ok
    /\ Len(investments) = itemsPerPage
    /\ View = "table"
    /\ typeFilter = "" /\ searchQuery = <<>>
    /\ totalPages = 1
    /\ currentPage = 1
    /\ last.op \in FilterOps

====
